---- MODULE Spec2Model ----
(***************************************************************************)
(* A model of container.hh of Voro++: the wall list, the container's       *)
(* per-request scratch fields, initialize_voronoicell, frac_pos,           *)
(* region_index, compute_cell and the radius hooks of container and        *)
(* container_poly.                                                         *)
(*                                                                         *)
(* Lengths are integers.  Every computational box has side 2, so that the  *)
(* axis lengths bx-ax, by-ay, bz-az are even and 0.5*(bx-ax) is exact.     *)
(***************************************************************************)
EXTENDS Integers, Sequences, FiniteSets, TLC

VARIABLES con, req, out

vars == <<con, req, out>>

(* ------------------------------ bounds -------------------------------- *)

\* Number of computational boxes along x, y and z.
NX == 2

NY == 3

NZ == 2

\* Largest number of walls added to one container.
MaxWalls == 2

\* Capacity of the wall array after construction.
InitWallSize == 1

(* ------------------------- inputs of the model ------------------------ *)

\* Lower corner of the container on the three axes.
LowerCorner == <<-2, 0, 4>>

\* Values an uninitialized int or double may hold.
Uninit == {-1, 0}

\* The two requests that may run on one container.
Requests == {"A", "B"}

\* The walls a caller may add: planes with normal (xc,0,0), xc = +1 or -1,
\* and displacement ac; the inside is xc*x < ac.
WallSet == {[xc |-> 1, ac |-> -1], [xc |-> -1, ac |-> 1]}

(* --------------------------- the particle store ------------------------ *)

\* p[ijk][idx] of the code; the sequence con.p[ijk] is indexed from 1.
P(cn, ijk, idx) == cn.p[ijk][idx + 1]

\* The particles of the model: box ijk = i + nx*(j + ny*k) holds a particle
\* at its lower corner and, when ijk is odd, a second one at its centre.
\* Radii (stored by container_poly only) run over 1, 2, 3.
ParticlesOfBox(nx_, ny_, ps_, ijk) ==
  LET x == LowerCorner[1] + 2 * (ijk % nx_)
      y == LowerCorner[2] + 2 * ((ijk \div nx_) % ny_)
      z == LowerCorner[3] + 2 * (ijk \div (nx_ * ny_))
      first == <<x, y, z>> \o (IF ps_ = 4 THEN <<1 + (ijk % 3)>> ELSE <<>>)
      second == <<x + 1, y + 1, z + 1>> \o (IF ps_ = 4 THEN <<1 + ((ijk + 1) % 3)>> ELSE <<>>)
  IN IF ijk % 2 = 1 THEN first \o second ELSE first

\* The fields of a container after construction and the import of the
\* model's particles: no wall, scratch fields holding whatever the memory
\* held (u).
container_base(ax_, bx_, ay_, by_, az_, bz_, nx_, ny_, nz_, xperiodic_, yperiodic_, zperiodic_, ps_, u) ==
  [ax |-> ax_, bx |-> bx_, ay |-> ay_, by |-> by_, az |-> az_, bz |-> bz_,
   nx |-> nx_, ny |-> ny_, nz |-> nz_,
   boxx |-> (bx_ - ax_) \div nx_,
   boxy |-> (by_ - ay_) \div ny_,
   boxz |-> (bz_ - az_) \div nz_,
   xperiodic |-> xperiodic_, yperiodic |-> yperiodic_, zperiodic |-> zperiodic_,
   ps |-> ps_,
   co |-> [b \in 0..(nx_ * ny_ * nz_ - 1) |-> IF b % 2 = 1 THEN 2 ELSE 1],
   mem |-> [b \in 0..(nx_ * ny_ * nz_ - 1) |-> 2],
   id |-> [b \in 0..(nx_ * ny_ * nz_ - 1) |->
             IF b % 2 = 1 THEN <<10 * b, 10 * b + 1>> ELSE <<10 * b>>],
   p |-> [b \in 0..(nx_ * ny_ * nz_ - 1) |-> ParticlesOfBox(nx_, ny_, ps_, b)],
   walls |-> <<>>, current_wall_size |-> InitWallSize,
   cux |-> u, cuy |-> u, cuz |-> u,
   cui |-> u, cuj |-> u, cuk |-> u, cuijk |-> u,
   max_radius |-> IF ps_ = 4 THEN 3 ELSE 0,
   r_rad |-> u, r_mul |-> [n |-> u, d |-> 1]]

\* A container (ps_ = 3) or container_poly (ps_ = 4) of NX x NY x NZ boxes
\* of side 2.
Container(xp, yp, zp, ps_, u) ==
  container_base(LowerCorner[1], LowerCorner[1] + 2 * NX,
                 LowerCorner[2], LowerCorner[2] + 2 * NY,
                 LowerCorner[3], LowerCorner[3] + 2 * NZ,
                 NX, NY, NZ, xp, yp, zp, ps_, u)

\* The loop objects a caller can hand to compute_cell: a stored particle
\* (ijk, q) with the box coordinates (i, j, k) of ijk.
Loops(cn) ==
  {vl \in {[ijk |-> b, q |-> s, i |-> b % cn.nx, j |-> (b \div cn.nx) % cn.ny,
            k |-> b \div (cn.nx * cn.ny)] : b \in DOMAIN cn.co, s \in 0..1} :
     vl.q < cn.co[vl.ijk]}

(* ------------------------------ the cell ------------------------------- *)

\* voronoicell::init: the cell becomes the box [x1,x2] x [y1,y2] x [z1,z2].
cell_init(x1, x2, y1, y2, z1, z2) ==
  [x1 |-> x1, x2 |-> x2, y1 |-> y1, y2 |-> y2, z1 |-> z1, z2 |-> z2]

\* A cell before init was called on it.
NoCell == cell_init(0, 0, 0, 0, 0, 0)

(* ------------------------------ the walls ------------------------------ *)

\* wall::point_inside of a plane wall.
point_inside(w, x, y, z) == w.xc * x < w.ac

\* wall::cut_cell of a plane wall for a particle at (x,y,z): the cell, in
\* the particle's frame, is cut by xc*v <= ac - xc*x; the cut returns false
\* when no part of the cell is left.
cut_cell(w, c, x, y, z) ==
  LET d == w.ac - w.xc * x
  IN IF w.xc > 0
     THEN [ret |-> c.x1 < d, c |-> [c EXCEPT !.x2 = IF d < @ THEN d ELSE @]]
     ELSE [ret |-> c.x2 > -d, c |-> [c EXCEPT !.x1 = IF -d > @ THEN -d ELSE @]]

\* wall_list::increase_wall_memory: the wall array doubles.
increase_wall_memory(cn) == [cn EXCEPT !.current_wall_size = 2 * @]

\* wall_list::add_wall(wall *w).
add_wall(cn, w) ==
  LET grown == IF Len(cn.walls) = cn.current_wall_size
               THEN increase_wall_memory(cn) ELSE cn
  IN [grown EXCEPT !.walls = Append(@, w)]

\* The loop of wall_list::point_inside_walls from wall wp on; asked lists
\* the walls whose point_inside was called.
RECURSIVE point_inside_walls_loop(_, _, _, _, _, _)
point_inside_walls_loop(cn, wp, x, y, z, asked) ==
  IF wp > Len(cn.walls) THEN [ret |-> TRUE, asked |-> asked]
  ELSE IF ~point_inside(cn.walls[wp], x, y, z)
       THEN [ret |-> FALSE, asked |-> Append(asked, wp)]
       ELSE point_inside_walls_loop(cn, wp + 1, x, y, z, Append(asked, wp))

\* Faulty point_inside_walls, for the check of C8: the first wall is never
\* asked.
point_inside_walls_skipfirst(cn, x, y, z) ==
  point_inside_walls_loop(cn, 2, x, y, z, <<>>)

\* wall_list::point_inside_walls.
point_inside_walls(cn, x, y, z) == point_inside_walls_loop(cn, 1, x, y, z, <<>>)

\* One entry of a request's call log.
Call(ev, w, ok) == [ev |-> ev, w |-> w, ok |-> ok]

\* The loop of wall_list::apply_walls from wall wp on; calls lists the
\* cut_cell calls made, each with the wall's position and its result.
RECURSIVE apply_walls_loop(_, _, _, _, _, _, _)
apply_walls_loop(cn, wp, c, x, y, z, calls) ==
  IF wp > Len(cn.walls) THEN [ret |-> TRUE, c |-> c, calls |-> calls]
  ELSE LET r == cut_cell(cn.walls[wp], c, x, y, z)
       IN IF ~r.ret
          THEN [ret |-> FALSE, c |-> r.c,
                calls |-> Append(calls, Call("cut_cell", wp, FALSE))]
          ELSE apply_walls_loop(cn, wp + 1, r.c, x, y, z,
                                Append(calls, Call("cut_cell", wp, TRUE)))

\* Faulty apply_walls, for the check of C2: a cut that returns false does
\* not end the loop.
RECURSIVE apply_walls_all_loop(_, _, _, _, _, _, _, _)
apply_walls_all_loop(cn, wp, c, x, y, z, calls, ret) ==
  IF wp > Len(cn.walls) THEN [ret |-> ret, c |-> c, calls |-> calls]
  ELSE LET r == cut_cell(cn.walls[wp], c, x, y, z)
       IN apply_walls_all_loop(cn, wp + 1, r.c, x, y, z,
                               Append(calls, Call("cut_cell", wp, r.ret)),
                               ret /\ r.ret)

apply_walls_all(cn, c, x, y, z) == apply_walls_all_loop(cn, 1, c, x, y, z, <<>>, TRUE)

\* wall_list::apply_walls.
apply_walls(cn, c, x, y, z) == apply_walls_loop(cn, 1, c, x, y, z, <<>>)

(* ------------------- container_base: the scratch fields ---------------- *)

\* 0.5*v, for the even v of the model.
Half(v) == v \div 2

\* Faulty init_axis, for the check of C1: the periodic extent is not halved.
init_axis_nohalf(periodic, a, b, n, cu, ci) ==
  IF periodic
  THEN [lo |-> -(b - a), hi |-> b - a, st |-> n]
  ELSE [lo |-> a - cu, hi |-> b - cu, st |-> ci]

\* One axis of initialize_voronoicell: the cell's extent [lo,hi] and the
\* start offset st, for an axis [a,b] of n boxes, a source at cu in box ci.
init_axis(periodic, a, b, n, cu, ci) ==
  IF periodic
  THEN [lo |-> -Half(b - a), hi |-> Half(b - a), st |-> n]
  ELSE [lo |-> a - cu, hi |-> b - cu, st |-> ci]

\* Faulty init_cuijk, for the check of C9: the z offset is not scaled by ny.
init_cuijk_flat(cn, vl, sti, stj, stk) == vl.ijk - sti - cn.nx * (stj + stk)

\* The scratch value cuijk a successful initialize_voronoicell stores.
init_cuijk(cn, vl, sti, stj, stk) == vl.ijk - sti - cn.nx * (stj + cn.ny * stk)

\* Faulty initialize_voronoicell, for the check of C7: cui is not written.
initialize_voronoicell_stale(cn, vl) ==
  LET pp == cn.ps * vl.q
      cux == P(cn, vl.ijk, pp)
      cuy == P(cn, vl.ijk, pp + 1)
      cuz == P(cn, vl.ijk, pp + 2)
      X == init_axis(cn.xperiodic, cn.ax, cn.bx, cn.nx, cux, vl.i)
      Y == init_axis(cn.yperiodic, cn.ay, cn.by, cn.ny, cuy, vl.j)
      Z == init_axis(cn.zperiodic, cn.az, cn.bz, cn.nz, cuz, vl.k)
      c0 == cell_init(X.lo, X.hi, Y.lo, Y.hi, Z.lo, Z.hi)
      cn1 == [cn EXCEPT !.cux = cux, !.cuy = cuy, !.cuz = cuz,
                        !.cuj = vl.j, !.cuk = vl.k]
      w == apply_walls(cn1, c0, cux, cuy, cuz)
  IN [ret |-> w.ret,
      con |-> IF w.ret
              THEN [cn1 EXCEPT !.cuijk = init_cuijk(cn, vl, X.st, Y.st, Z.st)]
              ELSE cn1,
      c |-> w.c, c0 |-> c0, sti |-> X.st, stj |-> Y.st, stk |-> Z.st,
      calls |-> <<Call("init", 0, TRUE)>> \o w.calls]

\* Faulty initialize_voronoicell, for the check of C10: cuijk is written
\* before the walls are applied.
initialize_voronoicell_early(cn, vl) ==
  LET pp == cn.ps * vl.q
      cux == P(cn, vl.ijk, pp)
      cuy == P(cn, vl.ijk, pp + 1)
      cuz == P(cn, vl.ijk, pp + 2)
      X == init_axis(cn.xperiodic, cn.ax, cn.bx, cn.nx, cux, vl.i)
      Y == init_axis(cn.yperiodic, cn.ay, cn.by, cn.ny, cuy, vl.j)
      Z == init_axis(cn.zperiodic, cn.az, cn.bz, cn.nz, cuz, vl.k)
      c0 == cell_init(X.lo, X.hi, Y.lo, Y.hi, Z.lo, Z.hi)
      cn1 == [cn EXCEPT !.cux = cux, !.cuy = cuy, !.cuz = cuz,
                        !.cui = vl.i, !.cuj = vl.j, !.cuk = vl.k]
      w == apply_walls(cn1, c0, cux, cuy, cuz)
  IN [ret |-> w.ret,
      con |-> [cn1 EXCEPT !.cuijk = init_cuijk(cn, vl, X.st, Y.st, Z.st)],
      c |-> w.c, c0 |-> c0, sti |-> X.st, stj |-> Y.st, stk |-> Z.st,
      calls |-> <<Call("init", 0, TRUE)>> \o w.calls]

\* container_base::initialize_voronoicell(c, vl, sti, stj, stk): returns
\* the container with its scratch fields written, the cell, the three start
\* offsets, the result and the calls made on the cell.
initialize_voronoicell(cn, vl) ==
  LET pp == cn.ps * vl.q
      cux == P(cn, vl.ijk, pp)
      cuy == P(cn, vl.ijk, pp + 1)
      cuz == P(cn, vl.ijk, pp + 2)
      X == init_axis(cn.xperiodic, cn.ax, cn.bx, cn.nx, cux, vl.i)
      Y == init_axis(cn.yperiodic, cn.ay, cn.by, cn.ny, cuy, vl.j)
      Z == init_axis(cn.zperiodic, cn.az, cn.bz, cn.nz, cuz, vl.k)
      c0 == cell_init(X.lo, X.hi, Y.lo, Y.hi, Z.lo, Z.hi)
      cn1 == [cn EXCEPT !.cux = cux, !.cuy = cuy, !.cuz = cuz,
                        !.cui = vl.i, !.cuj = vl.j, !.cuk = vl.k]
      w == apply_walls(cn1, c0, cux, cuy, cuz)
  IN [ret |-> w.ret,
      con |-> IF w.ret
              THEN [cn1 EXCEPT !.cuijk = init_cuijk(cn, vl, X.st, Y.st, Z.st)]
              ELSE cn1,
      c |-> w.c, c0 |-> c0, sti |-> X.st, stj |-> Y.st, stk |-> Z.st,
      calls |-> <<Call("init", 0, TRUE)>> \o w.calls]

\* container_base::frac_pos.
frac_pos(cn) ==
  [fx |-> cn.cux - cn.ax - cn.boxx * cn.cui,
   fy |-> cn.cuy - cn.ay - cn.boxy * cn.cuj,
   fz |-> cn.cuz - cn.az - cn.boxz * cn.cuk]

\* Faulty region_axis, for the check of C4: the upper wrap starts one box
\* late.
region_axis_late(periodic, a, b, n, cu, e, q0) ==
  IF periodic
  THEN IF cu + e < n THEN [e |-> e + n, q |-> -(b - a)]
       ELSE IF cu + e > 2 * n THEN [e |-> e - n, q |-> b - a]
       ELSE [e |-> e, q |-> 0]
  ELSE [e |-> e, q |-> q0]

\* One axis of region_index: the offset e and displacement q it leaves, for
\* an axis [a,b] of n boxes and scratch box coordinate cu; q0 is the value
\* the caller's displacement variable held.
region_axis(periodic, a, b, n, cu, e, q0) ==
  IF periodic
  THEN IF cu + e < n THEN [e |-> e + n, q |-> -(b - a)]
       ELSE IF cu + e >= 2 * n THEN [e |-> e - n, q |-> b - a]
       ELSE [e |-> e, q |-> 0]
  ELSE [e |-> e, q |-> q0]

\* Faulty region_index, for the check of C5: nx and ny are exchanged in the
\* linear index.
region_index_swapped(cn, ei, ej, ek, qx, qy, qz) ==
  LET X == region_axis(cn.xperiodic, cn.ax, cn.bx, cn.nx, cn.cui, ei, qx)
      Y == region_axis(cn.yperiodic, cn.ay, cn.by, cn.ny, cn.cuj, ej, qy)
      Z == region_axis(cn.zperiodic, cn.az, cn.bz, cn.nz, cn.cuk, ek, qz)
  IN [ret |-> cn.cuijk + X.e + cn.ny * (Y.e + cn.nx * Z.e),
      qx |-> X.q, qy |-> Y.q, qz |-> Z.q]

\* container_base::region_index(ei, ej, ek, qx, qy, qz).
region_index(cn, ei, ej, ek, qx, qy, qz) ==
  LET X == region_axis(cn.xperiodic, cn.ax, cn.bx, cn.nx, cn.cui, ei, qx)
      Y == region_axis(cn.yperiodic, cn.ay, cn.by, cn.ny, cn.cuj, ej, qy)
      Z == region_axis(cn.zperiodic, cn.az, cn.bz, cn.nz, cn.cuk, ek, qz)
  IN [ret |-> cn.cuijk + X.e + cn.nx * (Y.e + cn.ny * Z.e),
      qx |-> X.q, qy |-> Y.q, qz |-> Z.q]

(* ---------------------- the radius hooks of the driver ----------------- *)

\* container::r_init, container::r_cutoff and container::r_scale.
r_init(cn, ijk, s) == cn

r_cutoff(lrs) == lrs

r_scale(rs, ijk, q) == rs

\* container_poly::r_init; r_mul is kept as the fraction n/d.
r_init_poly(cn, ijk, s) ==
  LET r == P(cn, ijk, 4 * s + 3)
      m == cn.max_radius
  IN [cn EXCEPT !.r_mul = [n |-> (m + r) * (m + r) + (r * r - m * m),
                           d |-> (m + r) * (m + r)],
                !.r_rad = r * r]

\* container_poly::r_cutoff, as the fraction n/d.
r_cutoff_poly(cn, lrs) == [n |-> cn.r_mul.n * lrs, d |-> cn.r_mul.d]

\* Faulty r_scale, for the check of C6: the candidate's radius is not
\* squared.
r_scale_poly_unsquared(cn, rs, ijk, q) == rs + cn.r_rad - P(cn, ijk, 4 * q + 3)

\* container_poly::r_scale.
r_scale_poly(cn, rs, ijk, q) ==
  rs + cn.r_rad - P(cn, ijk, 4 * q + 3) * P(cn, ijk, 4 * q + 3)

(* --------------------------- compute requests -------------------------- *)

\* Faulty compute_cell, for the check of C3: the result of
\* initialize_voronoicell is ignored.
compute_cell_unchecked(cn, vl) ==
  LET i == initialize_voronoicell(cn, vl)
  IN [enter |-> TRUE, ret |-> FALSE, con |-> i.con, init |-> i,
      calls |-> Append(i.calls, Call("vc.compute_cell", 0, TRUE))]

\* container::compute_cell up to the call of the driver: the container
\* after initialize_voronoicell, whether the driver is entered (enter), the
\* value returned when it is not (ret), and the calls made on the cell so
\* far.
compute_cell(cn, vl) ==
  LET i == initialize_voronoicell(cn, vl)
  IN IF ~i.ret
     THEN [enter |-> FALSE, ret |-> FALSE, con |-> i.con, init |-> i,
           calls |-> i.calls]
     ELSE [enter |-> TRUE, ret |-> FALSE, con |-> i.con, init |-> i,
           calls |-> Append(i.calls, Call("vc.compute_cell", 0, TRUE))]

\* container_poly::compute_cell up to the call of the driver.
compute_cell_poly(cn, vl) ==
  LET i == initialize_voronoicell(cn, vl)
  IN IF ~i.ret
     THEN [enter |-> FALSE, ret |-> FALSE, con |-> i.con, init |-> i,
           calls |-> i.calls]
     ELSE [enter |-> TRUE, ret |-> FALSE, con |-> i.con, init |-> i,
           calls |-> Append(i.calls, Call("vc.compute_cell", 0, TRUE))]

\* What compute_cell returns once the driver has returned vcret.
compute_cell_return(vcret) == vcret

\* The driver's first step: it fixes the source particle's radius.
vc_enter(cn, vl) ==
  IF cn.ps = 4 THEN r_init_poly(cn, vl.ijk, vl.q) ELSE r_init(cn, vl.ijk, vl.q)

\* The most recent call of a request's driver, or of a caller: its name,
\* arguments and results.
Ret(op, a, r) == [op |-> op, a |-> a, r |-> r]

NoCall == Ret("none", <<>>, <<>>)

NoLoop == [ijk |-> 0, q |-> 0, i |-> 0, j |-> 0, k |-> 0]

\* A request: where it stands (pc), its loop object vl, the locals sti,
\* stj, stk of compute_cell, the cell as init left it (c0) and as the walls
\* left it (c), the calls made on the cell, the driver's position w in its
\* worklist and its locals qx, qy, qz, the driver's most recent call, what
\* initialize_voronoicell returned (iret), the result of compute_cell (ret),
\* and whether another request has run initialize_voronoicell since this
\* one did (shared).
IdleReq ==
  [pc |-> "idle", vl |-> NoLoop, sti |-> 0, stj |-> 0, stk |-> 0,
   c0 |-> NoCell, c |-> NoCell, calls |-> <<>>, w |-> 0,
   qx |-> 0, qy |-> 0, qz |-> 0, last |-> NoCall, iret |-> FALSE,
   ret |-> FALSE, shared |-> FALSE]

\* A caller adds wall w.
AddWall(w) ==
  /\ Len(con.walls) < MaxWalls
  /\ \A t \in Requests : req[t].pc = "idle"
  /\ con' = add_wall(con, w)
  /\ out' = NoCall
  /\ UNCHANGED req

\* A caller asks whether (x,y,z) is inside every wall.
PointInsideWalls(x, y, z) ==
  /\ \A t \in Requests : req[t].pc = "idle"
  /\ LET r == point_inside_walls(con, x, y, z)
     IN out' = Ret("point_inside_walls", <<x, y, z>>, <<r.ret, r.asked>>)
  /\ UNCHANGED <<con, req>>

\* Request t calls compute_cell(c, vl): initialize_voronoicell runs; the
\* request ends with false when a wall removed the cell, and is in the
\* driver otherwise.  Every other request in the driver now shares the
\* scratch fields with t.
ComputeCell(t, vl) ==
  /\ req[t].pc = "idle"
  /\ LET r == IF con.ps = 4 THEN compute_cell_poly(con, vl) ELSE compute_cell(con, vl)
     IN /\ con' = IF r.enter THEN vc_enter(r.con, vl) ELSE r.con
        /\ req' = [u \in Requests |->
                     IF u = t
                     THEN [IdleReq EXCEPT
                             !.pc = IF r.enter THEN "driver" ELSE "done",
                             !.vl = vl, !.sti = r.init.sti, !.stj = r.init.stj,
                             !.stk = r.init.stk, !.c0 = r.init.c0, !.c = r.init.c,
                             !.calls = r.calls, !.iret = r.init.ret,
                             !.ret = r.ret]
                     ELSE IF req[u].pc = "driver"
                          THEN [req[u] EXCEPT !.shared = TRUE]
                          ELSE req[u]]
  /\ out' = NoCall

\* The driver of request t resolves the next offset (ei,ej,ek) of its
\* worklist with region_index; qx, qy, qz are the driver's own variables.
DriverRegionIndex(t, ei, ej, ek) ==
  /\ req[t].pc = "driver"
  /\ LET r == region_index(con, ei, ej, ek, req[t].qx, req[t].qy, req[t].qz)
     IN req' = [req EXCEPT
                  ![t].last = Ret("region_index", <<ei, ej, ek>>, <<r.ret, r.qx, r.qy, r.qz>>),
                  ![t].qx = r.qx, ![t].qy = r.qy, ![t].qz = r.qz,
                  ![t].w = @ + 1]
  /\ UNCHANGED <<con, out>>

\* The driver of request t calls frac_pos.
DriverFracPos(t) ==
  /\ req[t].pc = "driver"
  /\ LET r == frac_pos(con)
     IN req' = [req EXCEPT ![t].last = Ret("frac_pos", <<>>, <<r.fx, r.fy, r.fz>>)]
  /\ UNCHANGED <<con, out>>

\* The driver of request t calls r_scale(lrs, jjk, q).
DriverRScale(t, lrs, jjk, q) ==
  /\ req[t].pc = "driver"
  /\ LET r == IF con.ps = 4 THEN r_scale_poly(con, lrs, jjk, q) ELSE r_scale(lrs, jjk, q)
     IN req' = [req EXCEPT ![t].last = Ret("r_scale", <<lrs, jjk, q>>, <<r>>)]
  /\ UNCHANGED <<con, out>>

\* The driver of request t calls r_cutoff(lrs).
DriverRCutoff(t, lrs) ==
  /\ req[t].pc = "driver"
  /\ LET r == IF con.ps = 4 THEN r_cutoff_poly(con, lrs) ELSE [n |-> r_cutoff(lrs), d |-> 1]
     IN req' = [req EXCEPT ![t].last = Ret("r_cutoff", <<lrs>>, <<r.n, r.d>>)]
  /\ UNCHANGED <<con, out>>

\* The driver of request t returns vcret (its variables are gone), and
\* compute_cell returns.
DriverReturn(t, vcret) ==
  /\ req[t].pc = "driver"
  /\ req' = [req EXCEPT ![t].pc = "done", ![t].ret = compute_cell_return(vcret),
                        ![t].w = 0, ![t].qx = 0, ![t].qy = 0, ![t].qz = 0,
                        ![t].last = Ret("vc.compute_cell", <<>>, <<vcret>>)]
  /\ UNCHANGED <<con, out>>

\* The caller of request t has taken the result; t may start a new request.
Release(t) ==
  /\ req[t].pc = "done"
  /\ req' = [req EXCEPT ![t] = IdleReq]
  /\ UNCHANGED <<con, out>>

(* ---------------- Spec: walls and two requests on one container -------- *)
(* The container is periodic in z, not in y, and either way in x (the      *)
(* walls cut along x); it is a container or a container_poly.  Walls are   *)
(* added and points tested while no request runs.  The two requests run    *)
(* compute_cell side by side; the container has no lock, so the steps of   *)
(* one (initialize_voronoicell, each call of its driver) interleave with   *)
(* the steps of the other.                                                 *)

\* The sources of the requests: the particles of the boxes along x.
Sources(cn) == {vl \in Loops(cn) : vl.j = 0 /\ vl.k = 0}

\* The worklist of the drivers: the start offset, then its upper x
\* neighbour.
Worklist(r) == <<(<<r.sti, r.stj, r.stk>>), (<<r.sti + 1, r.stj, r.stk>>)>>

\* The points asked of point_inside_walls.
Points == {<<-2, 0, 4>>, <<-1, 0, 4>>, <<0, 0, 4>>}

Init ==
  /\ \E xp \in BOOLEAN, ps_ \in {3, 4} : con = Container(xp, FALSE, TRUE, ps_, -1)
  /\ req = [t \in Requests |-> IdleReq]
  /\ out = NoCall

Next ==
  \/ \E w \in WallSet : AddWall(w)
  \/ \E pt \in Points : PointInsideWalls(pt[1], pt[2], pt[3])
  \/ \E t \in Requests, vl \in Sources(con) : ComputeCell(t, vl)
  \/ \E t \in Requests : \E o \in {Worklist(req[t])[n] : n \in {req[t].w + 1} \cap 1..2} :
       DriverRegionIndex(t, o[1], o[2], o[3])
  \/ \E t \in Requests : DriverFracPos(t)
  \/ \E t \in Requests, vcret \in BOOLEAN : DriverReturn(t, vcret)
  \/ \E t \in Requests : Release(t)

Spec == Init /\ [][Next]_vars

(* ------- SpecGeom: one request, no wall, every periodicity, any offset -- *)

\* The offsets tried on one axis of n boxes for a source in box ci: on a
\* periodic axis every e with 0 <= ci + e < 3n; on a non-periodic axis
\* every box of the axis and one box beyond either end.
AxisOffsets(periodic, n, ci) ==
  IF periodic THEN [lo |-> -ci, len |-> 3 * n] ELSE [lo |-> -1, len |-> n + 2]

\* The worklist of the driver in SpecGeom: every combination of the three
\* axes' offsets, x fastest.  Its length, and its entry number w (from 0).
GeomWorklistLen(cn, vl) ==
  AxisOffsets(cn.xperiodic, cn.nx, vl.i).len
    * AxisOffsets(cn.yperiodic, cn.ny, vl.j).len
    * AxisOffsets(cn.zperiodic, cn.nz, vl.k).len

GeomWorklist(cn, vl, w) ==
  LET X == AxisOffsets(cn.xperiodic, cn.nx, vl.i)
      Y == AxisOffsets(cn.yperiodic, cn.ny, vl.j)
      Z == AxisOffsets(cn.zperiodic, cn.nz, vl.k)
  IN <<X.lo + (w % X.len), Y.lo + ((w \div X.len) % Y.len),
       Z.lo + (w \div (X.len * Y.len))>>

InitGeom ==
  /\ \E xp \in BOOLEAN, yp \in BOOLEAN, zp \in BOOLEAN : con = Container(xp, yp, zp, 3, 0)
  /\ req = [t \in Requests |-> IdleReq]
  /\ out = NoCall

NextGeom ==
  \/ \E vl \in Loops(con) : ComputeCell("A", vl)
  \/ \E o \in {GeomWorklist(con, req["A"].vl, req["A"].w)} :
       /\ req["A"].w < GeomWorklistLen(con, req["A"].vl)
       /\ DriverRegionIndex("A", o[1], o[2], o[3])
  \/ \E vcret \in BOOLEAN : DriverReturn("A", vcret)
  \/ Release("A")

SpecGeom == InitGeom /\ [][NextGeom]_vars

(* ---------- SpecPoly: the radius hooks of the two container kinds ------- *)

\* The squared distances handed to r_scale and r_cutoff.
Distances == {0, 4, 9}

InitPoly ==
  /\ \E ps_ \in {3, 4}, u \in Uninit : con = Container(FALSE, TRUE, FALSE, ps_, u)
  /\ req = [t \in Requests |-> IdleReq]
  /\ out = NoCall

NextPoly ==
  \/ \E vl \in Sources(con) : ComputeCell("A", vl)
  \/ \E lrs \in Distances, vl \in Sources(con) : DriverRScale("A", lrs, vl.ijk, vl.q)
  \/ \E lrs \in Distances : DriverRCutoff("A", lrs)
  \/ \E vcret \in BOOLEAN : DriverReturn("A", vcret)
  \/ Release("A")

SpecPoly == InitPoly /\ [][NextPoly]_vars

(* ======================= the claims and their checks ==================== *)

\* The stored position of the particle a loop object names.
SourcePos(cn, vl) ==
  <<P(cn, vl.ijk, cn.ps * vl.q), P(cn, vl.ijk, cn.ps * vl.q + 1),
    P(cn, vl.ijk, cn.ps * vl.q + 2)>>

\* The requests that have called compute_cell and not been released.
Active == {t \in Requests : req[t].pc # "idle"}

\* The requests whose driver's most recent call was op.
Called(op) == {t \in Requests : req[t].pc = "driver" /\ req[t].last.op = op}

\* The extent [lo,hi] claimed for one axis [a,b] of the initial cell of a
\* source at cu.
BoxAxis(periodic, a, b, cu, lo, hi) ==
  IF periodic THEN 2 * lo = -(b - a) /\ 2 * hi = b - a
  ELSE lo = a - cu /\ hi = b - cu

\* C1: initialize_voronoicell initializes the cell, in the frame of the
\* source particle, to a box whose extent on each axis is chosen
\* independently: from a - source to b - source on a non-periodic axis, from
\* -L/2 to +L/2 (L = b - a) on a periodic axis, whatever the source
\* position; for each of the 8 combinations of periodicity flags.
C1_InitialBox ==
  \A t \in Active :
    LET r == req[t]
        s == SourcePos(con, r.vl)
    IN /\ BoxAxis(con.xperiodic, con.ax, con.bx, s[1], r.c0.x1, r.c0.x2)
       /\ BoxAxis(con.yperiodic, con.ay, con.by, s[2], r.c0.y1, r.c0.y2)
       /\ BoxAxis(con.zperiodic, con.az, con.bz, s[3], r.c0.z1, r.c0.z2)

\* A cell was initialized for a source off its box's corner in a container
\* periodic in x and z only.
C1_Witness ==
  /\ con.xperiodic /\ ~con.yperiodic /\ con.zperiodic
  /\ req["A"].pc = "driver" /\ req["A"].vl.q = 1 /\ req["A"].vl.ijk > 0
  /\ req["A"].c0.x1 = -NX /\ req["A"].c0.y2 = con.by - SourcePos(con, req["A"].vl)[2]

\* The box coordinate region_index is claimed to resolve offset e to, on
\* an axis of n boxes for a source in box ci: wrapped on a periodic axis,
\* the offset itself on a non-periodic one.
Component(periodic, n, ci, e) == IF periodic THEN (ci + e) % n ELSE e

\* The displacement claimed for offset e on a periodic axis [a,b].
Shift(a, b, n, ci, e) == ((ci + e) \div n - 1) * (b - a)

\* The linear index claimed for offsets e = (ei,ej,ek) and source box vl.
Linear(cn, vl, e) ==
  Component(cn.xperiodic, cn.nx, vl.i, e[1])
    + cn.nx * (Component(cn.yperiodic, cn.ny, vl.j, e[2])
               + cn.ny * Component(cn.zperiodic, cn.nz, vl.k, e[3]))

\* C4: on a periodic axis region_index wraps and records the displacement:
\* with t = cui + ei and 0 <= t < 3*nx, the x component of the returned
\* index is t mod nx, within [0,nx), and qx = (t div nx - 1)*(bx-ax);
\* likewise for y and z; the returned value is x + nx*(y + ny*z) of the
\* three per-axis components.
C4_PeriodicWrap ==
  \A t \in Called("region_index") :
    LET r == req[t]
        e == r.last.a
        res == r.last.r
    IN /\ res[1] = Linear(con, r.vl, e)
       /\ con.xperiodic =>
            /\ Component(TRUE, con.nx, r.vl.i, e[1]) \in 0..(con.nx - 1)
            /\ res[2] = Shift(con.ax, con.bx, con.nx, r.vl.i, e[1])
            /\ res[2] \in {-(con.bx - con.ax), 0, con.bx - con.ax}
       /\ con.yperiodic =>
            /\ Component(TRUE, con.ny, r.vl.j, e[2]) \in 0..(con.ny - 1)
            /\ res[3] = Shift(con.ay, con.by, con.ny, r.vl.j, e[2])
            /\ res[3] \in {-(con.by - con.ay), 0, con.by - con.ay}
       /\ con.zperiodic =>
            /\ Component(TRUE, con.nz, r.vl.k, e[3]) \in 0..(con.nz - 1)
            /\ res[4] = Shift(con.az, con.bz, con.nz, r.vl.k, e[3])
            /\ res[4] \in {-(con.bz - con.az), 0, con.bz - con.az}

\* region_index wrapped upwards in x, downwards in y and not at all in z.
C4_Witness ==
  /\ con.xperiodic /\ con.yperiodic /\ con.zperiodic
  /\ "A" \in Called("region_index")
  /\ req["A"].vl.i + req["A"].last.a[1] = 2 * con.nx
  /\ req["A"].last.r[2] = con.bx - con.ax
  /\ req["A"].last.r[3] = -(con.by - con.ay)
  /\ req["A"].last.r[4] = 0

\* Whether offset e is a box of a non-periodic axis of n boxes.
InGrid(periodic, n, e) == periodic \/ e \in 0..(n - 1)

\* C5 as stated: on a non-periodic axis region_index clamps, so that for
\* any candidate offset the returned linear index is in [0, nx*ny*nz).
C5_AlwaysInRange ==
  \A t \in Called("region_index") :
    req[t].last.r[1] \in 0..(con.nx * con.ny * con.nz - 1)

\* C5 as amended: after a successful initialize_voronoicell, region_index
\* does not clamp on a non-periodic axis; the component of the returned
\* index on that axis is the offset itself.  The returned index is in
\* [0, nx*ny*nz), and names the box with those coordinates, when every
\* offset on a non-periodic axis is itself in [0,n) (and 0 <= cu + e < 3n
\* on the periodic axes).
C5_InRangeForGridOffsets ==
  \A t \in Called("region_index") :
    LET e == req[t].last.a
        ret == req[t].last.r[1]
        wrapped == <<(req[t].vl.i + e[1]) % con.nx, (req[t].vl.j + e[2]) % con.ny,
                     (req[t].vl.k + e[3]) % con.nz>>
    IN /\ ret = (IF con.xperiodic THEN wrapped[1] ELSE e[1])
                 + con.nx * ((IF con.yperiodic THEN wrapped[2] ELSE e[2])
                             + con.ny * (IF con.zperiodic THEN wrapped[3] ELSE e[3]))
       /\ (/\ InGrid(con.xperiodic, con.nx, e[1])
           /\ InGrid(con.yperiodic, con.ny, e[2])
           /\ InGrid(con.zperiodic, con.nz, e[3]))
          => /\ ret \in 0..(con.nx * con.ny * con.nz - 1)
             /\ ~con.xperiodic => ret % con.nx = e[1]
             /\ ~con.yperiodic => (ret \div con.nx) % con.ny = e[2]
             /\ ~con.zperiodic => ret \div (con.nx * con.ny) = e[3]

\* region_index resolved the last box of a container with no periodic axis.
C5_Witness ==
  /\ ~con.xperiodic /\ ~con.yperiodic /\ ~con.zperiodic
  /\ "A" \in Called("region_index")
  /\ req["A"].last.a = <<con.nx - 1, con.ny - 1, con.nz - 1>>
  /\ req["A"].last.r[1] = con.nx * con.ny * con.nz - 1

\* C9: after a successful initialize_voronoicell for a particle in box
\* vl.ijk, the start offset (sti,stj,stk) it returns resolves through
\* region_index to exactly vl.ijk, with displacement 0 on every periodic
\* axis; for every box and every combination of periodicity flags.
C9_StartOffsetIsOwnBox ==
  \A t \in Called("region_index") :
    LET r == req[t]
    IN (r.iret /\ r.last.a = <<r.sti, r.stj, r.stk>>)
       => /\ r.last.r[1] = r.vl.ijk
          /\ con.xperiodic => r.last.r[2] = 0
          /\ con.yperiodic => r.last.r[3] = 0
          /\ con.zperiodic => r.last.r[4] = 0

\* The start offset was resolved for the last box of a container periodic
\* in y only.
C9_Witness ==
  /\ ~con.xperiodic /\ con.yperiodic /\ ~con.zperiodic
  /\ "A" \in Called("region_index")
  /\ req["A"].vl.ijk = con.nx * con.ny * con.nz - 1
  /\ req["A"].last.a = <<con.nx - 1, con.ny, con.nz - 1>>
  /\ req["A"].last.a = <<req["A"].sti, req["A"].stj, req["A"].stk>>

\* The cut_cell calls among the calls request t made on its cell.
Cuts(t) == SelectSeq(req[t].calls, LAMBDA e : e.ev = "cut_cell")

\* The cell c0 of a source at s after the first n walls have cut it.
RECURSIVE CellAfter(_, _, _, _)
CellAfter(walls, c0, s, n) ==
  IF n = 0 THEN c0
  ELSE cut_cell(walls[n], CellAfter(walls, c0, s, n - 1), s[1], s[2], s[3]).c

\* What C2 says of the calls of one request.
WallsCutInOrder(t) ==
  LET cuts == Cuts(t)
      walls == con.walls
      s == SourcePos(con, req[t].vl)
  IN /\ Len(cuts) <= Len(walls)
     /\ \A n \in 1..Len(cuts) :
          /\ cuts[n].w = n
          /\ cuts[n].ok = cut_cell(walls[n], CellAfter(walls, req[t].c0, s, n - 1),
                                   s[1], s[2], s[3]).ret
          /\ n < Len(cuts) => cuts[n].ok
     /\ Len(cuts) < Len(walls) => (Len(cuts) >= 1 /\ ~cuts[Len(cuts)].ok)
     /\ req[t].iret = (\A n \in 1..Len(cuts) : cuts[n].ok)
     /\ req[t].c = CellAfter(walls, req[t].c0, s, Len(cuts))

\* C2: apply_walls applies the walls' cuts in the order the walls were
\* added with add_wall (a wall is added behind the walls already there) and
\* short-circuits: as soon as one cut_cell returns false it returns false
\* and no later wall's cut_cell is called; it returns true only if every
\* wall's cut returned true, and returns true for an empty wall list.
C2_WallsInOrderShortCircuit ==
  /\ [](\A t \in Active : WallsCutInOrder(t))
  /\ [][con'.walls # con.walls =>
          /\ Len(con'.walls) = Len(con.walls) + 1
          /\ SubSeq(con'.walls, 1, Len(con.walls)) = con.walls]_vars

\* The first of two different walls removed the cell and the second was
\* never asked to cut.
C2_Witness ==
  /\ Len(con.walls) = 2 /\ con.walls[1] # con.walls[2]
  /\ req["A"].pc = "done" /\ ~req["A"].iret
  /\ Len(Cuts("A")) = 1 /\ ~Cuts("A")[1].ok

\* The positions of the driver's invocations among the calls of request t.
DriverCalls(t) ==
  {n \in 1..Len(req[t].calls) : req[t].calls[n].ev = "vc.compute_cell"}

\* Whether some wall removed the cell of request t.
Annihilated(t) ==
  \E n \in 1..Len(req[t].calls) :
    req[t].calls[n].ev = "cut_cell" /\ ~req[t].calls[n].ok

\* C3: in compute_cell (container and container_poly) the cell is
\* initialized first, then the walls are applied, and only then is the cell
\* handed to the driver: if a wall annihilates the cell, compute_cell
\* returns false and vc.compute_cell is never invoked for that request; if
\* none does, the driver is invoked exactly once and its result is the
\* result of compute_cell.
C3_WallsBeforeDriver ==
  \A t \in Active :
    LET r == req[t]
    IN /\ r.calls[1].ev = "init"
       /\ \A n \in 2..Len(r.calls) : r.calls[n].ev # "init"
       /\ Annihilated(t) => (r.pc = "done" /\ r.ret = FALSE /\ DriverCalls(t) = {})
       /\ ~Annihilated(t) =>
            /\ DriverCalls(t) = {Len(r.calls)}
            /\ Len(Cuts(t)) = Len(con.walls)
            /\ r.pc = "done" => (r.last.op = "vc.compute_cell" /\ r.ret = r.last.r[1])

\* On a container_poly with walls, one request ended with false without
\* its driver having run, and another returned its driver's true.
C3_Witness ==
  /\ con.ps = 4 /\ Len(con.walls) > 0
  /\ req["A"].pc = "done" /\ Annihilated("A") /\ ~req["A"].ret
  /\ req["B"].pc = "done" /\ ~Annihilated("B") /\ req["B"].ret

\* The values request t's own initialize_voronoicell writes to the scratch
\* fields cux, cuy, cuz, cui, cuj, cuk (and, on success, cuijk).
OwnScratch(t) ==
  LET r == req[t]
      s == SourcePos(con, r.vl)
  IN [cux |-> s[1], cuy |-> s[2], cuz |-> s[3],
      cui |-> r.vl.i, cuj |-> r.vl.j, cuk |-> r.vl.k,
      cuijk |-> r.vl.ijk - r.sti - con.nx * (r.stj + con.ny * r.stk)]

\* The scratch fields as they are.
Scratch ==
  [cux |-> con.cux, cuy |-> con.cuy, cuz |-> con.cuz,
   cui |-> con.cui, cuj |-> con.cuj, cuk |-> con.cuk, cuijk |-> con.cuijk]

\* C7: when requests on one container run one after the other (no other
\* request runs initialize_voronoicell while a request is in its driver),
\* every region_index and frac_pos call of a request reads the scratch
\* values its own initialize_voronoicell wrote; when two requests
\* interleave, a region_index result of one can be computed from the
\* other's source box (C7_Witness).
C7_UnsharedScratchIsOwn ==
  \A t \in Requests :
    (req[t].pc = "driver" /\ ~req[t].shared) =>
      /\ Scratch = OwnScratch(t)
      /\ req[t].last.op = "region_index" =>
           req[t].last.r[1] = Linear(con, req[t].vl, req[t].last.a)
      /\ req[t].last.op = "frac_pos" =>
           req[t].last.r = <<OwnScratch(t).cux - con.ax - con.boxx * req[t].vl.i,
                             OwnScratch(t).cuy - con.ay - con.boxy * req[t].vl.j,
                             OwnScratch(t).cuz - con.az - con.boxz * req[t].vl.k>>

\* A initialized, B initialized for a source in another box, and A's
\* region_index then returned the box that offset names from B's box, not
\* from A's.
C7_Witness ==
  /\ "A" \in Called("region_index") /\ req["A"].shared
  /\ req["B"].pc = "driver" /\ req["B"].vl.i # req["A"].vl.i
  /\ Scratch = OwnScratch("B")
  /\ req["A"].last.r[1] = Linear(con, req["B"].vl, req["A"].last.a)
  /\ req["A"].last.r[1] # Linear(con, req["A"].vl, req["A"].last.a)

\* C8: point_inside_walls is the conjunction over all walls: it returns
\* true exactly when every added wall's point_inside(x,y,z) is true (true
\* for an empty list), and stops asking walls at the first that reports
\* false.
C8_PointInsideIsConjunction ==
  out.op = "point_inside_walls" =>
    LET x == out.a[1]
        y == out.a[2]
        z == out.a[3]
        ret == out.r[1]
        asked == out.r[2]
        Outside == {n \in 1..Len(con.walls) : ~point_inside(con.walls[n], x, y, z)}
    IN /\ ret = (Outside = {})
       /\ \A n \in 1..Len(asked) : asked[n] = n
       /\ Outside = {} => Len(asked) = Len(con.walls)
       /\ Outside # {} => (Len(asked) \in Outside /\ \A n \in Outside : n >= Len(asked))

\* A point outside the first of two walls: one wall was asked.
C8_Witness ==
  /\ out.op = "point_inside_walls" /\ Len(con.walls) = 2
  /\ out.r = <<FALSE, <<1>>>>

\* The particle store of a container.
Store(cn) == <<cn.co, cn.mem, cn.id, cn.p>>

\* C10: when initialize_voronoicell returns false because a wall
\* annihilated the cell, cux,cuy,cuz,cui,cuj,cuk hold the new source's
\* values while cuijk keeps the value it had; when it returns true, cuijk
\* is vl.ijk - sti - nx*(stj + ny*stk).  So cuijk is that of the most
\* recent request whose walls all succeeded, not necessarily of the most
\* recent request.  initialize_voronoicell and region_index leave the
\* particle store (co, mem, id, p) unchanged in every case.
C10_FailedInitKeepsCuijk ==
  [][\A t \in Requests :
       /\ (req[t].pc = "idle" /\ req'[t].pc # "idle") =>
            LET own == OwnScratch(t)'
            IN /\ con'.cux = own.cux /\ con'.cuy = own.cuy /\ con'.cuz = own.cuz
               /\ con'.cui = own.cui /\ con'.cuj = own.cuj /\ con'.cuk = own.cuk
               /\ con'.cuijk = IF req'[t].iret THEN own.cuijk ELSE con.cuijk
               /\ req'[t].iret = ~Annihilated(t)'
               /\ Store(con') = Store(con)
       /\ (req[t].pc = "driver" /\ req'[t].w = req[t].w + 1) =>
            (Store(con') = Store(con) /\ Scratch' = Scratch)]_vars

\* The most recent request (A) lost its cell to a wall: the scratch
\* position and box are A's, cuijk is the one an earlier request left.
C10_Witness ==
  /\ req["A"].pc = "done" /\ ~req["A"].iret /\ req["B"].pc = "idle"
  /\ con.cux = OwnScratch("A").cux /\ con.cui = OwnScratch("A").cui
  /\ con.cuijk # OwnScratch("A").cuijk
  /\ con.cuijk = OwnScratch("A").cuijk - 1

\* The stored radius of particle q of box ijk in a container_poly.
Radius(cn, ijk, q) == P(cn, ijk, 4 * q + 3)

\* C6: in the weighted container, once r_init has been called for the
\* source particle (radius r_s), r_scale(lrs, jjk, q) returns
\* lrs + r_s^2 - r_t^2, r_t the stored radius of candidate q of box jjk;
\* for r_s = 1, r_t = 2 and a candidate at distance 3 (lrs = 9) this is 6,
\* so the cut plane (the value halved, normal (3,0,0)) is at x = 1
\* (2*3*1 = 6), not at x = 1.5 (2*3*1.5 = 9).  In the unweighted container
\* r_scale and r_cutoff return their argument unchanged.
C6_RadicalScale ==
  \A t \in Requests :
    LET r == req[t]
    IN /\ (t \in Called("r_scale") /\ con.ps = 4) =>
            LET rs == Radius(con, r.vl.ijk, r.vl.q)
                rt == Radius(con, r.last.a[2], r.last.a[3])
            IN /\ r.last.r[1] = r.last.a[1] + rs * rs - rt * rt
               /\ (rs = 1 /\ rt = 2 /\ r.last.a[1] = 9) =>
                    (r.last.r[1] = 6 /\ r.last.r[1] = 2 * 3 * 1 /\ r.last.r[1] # 3 * 3)
       /\ (t \in Called("r_scale") /\ con.ps = 3) => r.last.r[1] = r.last.a[1]
       /\ (t \in Called("r_cutoff") /\ con.ps = 3) => r.last.r = <<r.last.a[1], 1>>

\* The weighted example: source radius 1, candidate radius 2, lrs = 9.
C6_Witness ==
  /\ con.ps = 4 /\ "A" \in Called("r_scale")
  /\ Radius(con, req["A"].vl.ijk, req["A"].vl.q) = 1
  /\ Radius(con, req["A"].last.a[2], req["A"].last.a[3]) = 2
  /\ req["A"].last.a[1] = 9 /\ req["A"].last.r[1] = 6

====
